---- MODULE Spec2Model ----
(***************************************************************************)
(* Model of scripts/analyze-dependencies.py (class DependencyAnalyzer):    *)
(* file collection, entry-point discovery, import tracing and resolution,  *)
(* dashboard component discovery, the reachability closure and the report. *)
(*                                                                         *)
(* Strings.  A Python str is modelled as a sequence of lexemes: the        *)
(* characters "." and "/" are lexemes of their own, a space is the lexeme  *)
(* " ", and every maximal run of other characters is one lexeme ("src",    *)
(* "index", "ts").  str.replace, str.startswith, the pathlib operations    *)
(* and the regular expressions of the program only look at "." "/" and at  *)
(* whole runs for the inputs used here, so they are computed on lexemes    *)
(* exactly as Python computes them on characters.  "src/foo.ts" is         *)
(* <<"src", "/", "foo", ".", "ts">> and "../x" is <<".", ".", "/", "x">>.  *)
(***************************************************************************)
EXTENDS Integers, Sequences, FiniteSets, TLC

(* ------------------------------ str ----------------------------------- *)

\* s.startswith(p)
StartsWith(s, p) ==
    /\ Len(s) >= Len(p)
    /\ SubSeq(s, 1, Len(p)) = p

\* s.replace(old, new): leftmost non-overlapping occurrences, left to right
RECURSIVE Replace(_, _, _)
Replace(s, old, new) ==
    IF Len(s) < Len(old) \/ old = <<>> THEN s
    ELSE IF SubSeq(s, 1, Len(old)) = old
         THEN new \o Replace(SubSeq(s, Len(old) + 1, Len(s)), old, new)
         ELSE <<Head(s)>> \o Replace(Tail(s), old, new)

(* ---------------------------- pathlib --------------------------------- *)

\* The "/"-separated parts of a str, empty parts kept.
RECURSIVE SplitParts(_, _)
SplitParts(s, cur) ==
    IF s = <<>> THEN <<cur>>
    ELSE IF Head(s) = "/" THEN <<cur>> \o SplitParts(Tail(s), <<>>)
         ELSE SplitParts(Tail(s), Append(cur, Head(s)))

\* Path(s) for a relative s: pathlib drops empty parts and "." parts and keeps
\* ".." parts.
PathParts(s) ==
    SelectSeq(SplitParts(s, <<>>), LAMBDA p : p # <<>> /\ p # <<".">>)

\* Path.parent: all parts but the last (Path('.') is its own parent).
Parent(parts) ==
    IF parts = <<>> THEN <<>> ELSE SubSeq(parts, 1, Len(parts) - 1)

\* str(path) of a relative path: the parts joined by "/", "." when there are none.
RECURSIVE JoinParts(_)
JoinParts(parts) ==
    IF parts = <<>> THEN <<".">>
    ELSE IF Len(parts) = 1 THEN parts[1]
         ELSE parts[1] \o <<"/">> \o JoinParts(Tail(parts))

\* The sentinel for a path that Path.resolve() leaves outside self.root.
OutsideRoot == <<<<"<outside root>">>>>

\* (self.root / rel).resolve().relative_to(self.root), the tree holding no
\* symbolic links: ".." parts cancel the part before them; a ".." with nothing
\* left to cancel climbs above the root, where relative_to raises ValueError.
RECURSIVE ResolveParts(_, _)
ResolveParts(parts, acc) ==
    IF parts = <<>> THEN acc
    ELSE IF Head(parts) = <<".", ".">>
         THEN IF acc = <<>> THEN OutsideRoot
              ELSE ResolveParts(Tail(parts), SubSeq(acc, 1, Len(acc) - 1))
         ELSE ResolveParts(Tail(parts), Append(acc, Head(parts)))

(* --------------------------- the project ------------------------------ *)

\* Bounds of the inputs.
MaxImports == 3    \* import statements in the whole source tree
MaxLines == 2      \* lines after the first line of a bin script
MaxRefs == 2       \* other quoted strings in a dashboard server file

\* Paths of source files, relative to the project root.
SrcEntryTs == <<"src", "/", "entry", ".", "ts">>
SrcLibTs == <<"src", "/", "lib", ".", "ts">>
SrcOrphanTs == <<"src", "/", "orphan", ".", "ts">>
SrcFooTs == <<"src", "/", "foo", ".", "ts">>
SrcFooIndexTs == <<"src", "/", "foo", "/", "index", ".", "ts">>
SrcDXTs == <<"src", "/", "d", "/", "x", ".", "ts">>
SrcDEFTs == <<"src", "/", "d", "/", "e", "/", "f", ".", "ts">>
SrcCoreTs == <<"src", "/", "core", ".", "ts">>
SrcCore == <<"src", "/", "core">>
SrcVendorTs == <<"src", "/", "node_modules", "/", "lib", ".", "ts">>
SrcReadme == <<"src", "/", "README", ".", "md">>
ServerTs == <<"src", "/", "dashboard", "/", "server", ".", "ts">>
PanelTs == <<"src", "/", "dashboard", "/", "panel", ".", "ts">>
VendoredServerTs ==
    <<"src", "/", "dashboard", "/", "node_modules-server", ".", "ts">>
EntryTs == <<"entry", ".", "ts">>
LibTs == <<"lib", ".", "ts">>
OrphanTs == <<"orphan", ".", "ts">>
BinCliJs == <<"bin", "/", "cli", ".", "js">>

\* Import statements, one of each syntactic shape the extractor recognises.
ImportLib == [form |-> "from", target |-> <<".", "/", "lib">>]
ImportEntry == [form |-> "require", target |-> <<".", "/", "entry">>]
ImportOrphan == [form |-> "dynamic", target |-> <<".", "/", "orphan">>]
ImportHelper == [form |-> "bare", target |-> <<".", "/", "unused_helper">>]
ImportFoo == [form |-> "from", target |-> <<".", "/", "foo">>]
ImportUpX == [form |-> "from", target |-> <<".", ".", "/", "x">>]
ImportUp == [form |-> "require", target |-> <<".", ".">>]
ImportReact == [form |-> "from", target |-> <<"react">>]

\* The text of each file: the import statements in it and the other quoted
\* strings in it.  statements is the set of <<file, statement>> pairs of a
\* tree, quoted the other quoted strings of the files that have some.
TextOf(files, statements, quoted) ==
    [f \in files |->
        [imports |-> {p[2] : p \in {q \in statements : q[1] = f}},
         literals |-> IF f \in DOMAIN quoted THEN quoted[f] ELSE {}]]

\* The subsets of S of at most n elements.
SubsetsUpTo(S, n) == {T \in SUBSET S : Cardinality(T) <= n}

\* package.json
NoManifest == [state |-> "absent", bin |-> {}, scripts |-> {}]
BadManifest == [state |-> "malformed", bin |-> {}, scripts |-> {}]
Manifest(bin, scripts) == [state |-> "parsed", bin |-> bin, scripts |-> scripts]

ScriptEntry == <<"tsx", " ", "src", "/", "entry", ".", "ts">>
ScriptLib == <<"node", " ", "src", "/", "lib", ".", "ts">>
ScriptCoreTsx == <<"vite", " ", "src", "/", "core", ".", "tsx">>
ScriptBuild == <<"tsc", " ", "-p", " ", "src", "/", "tsconfig", ".", "json">>
ScriptServer == <<"ts-node", " ", "src", "/", "dashboard", "/", "server", ".", "ts">>

\* A project: the tree under the root the analyzer is constructed with.
\*   files      the regular files outside bin/ (paths relative to the root)
\*   text       the text of each
\*   unreadable the files open() fails on
\*   manifest   package.json: absent, malformed, or its bin and scripts
\*   bin        the files of bin/ (empty: no bin directory)
Project(files, text, unreadable, manifest, bin) ==
    [files |-> files, text |-> text, unreadable |-> unreadable,
     manifest |-> manifest, bin |-> bin]

(* ----------------------- lexeme-level matching ------------------------- *)

\* The lexemes of the inputs that contain the given word as a substring
\* (none of the words holds "." "/" or a space, so a substring test on a str
\* is a test on its lexemes).
LexemesContaining(word) ==
    CASE word = "node" -> {"node", "ts-node", "node_modules",
                           "node_modules-server"}
      [] word = "tsx" -> {"tsx"}
      [] word = "ts-node" -> {"ts-node"}
      [] word = "node_modules" -> {"node_modules", "node_modules-server"}
      [] word = "server" -> {"server", "node_modules-server"}
      [] OTHER -> {}

\* word in s
HasWord(s, word) == \E i \in 1..Len(s) : s[i] \in LexemesContaining(word)

\* The lexemes made of \w and "-" characters only.
IsWordLexeme(l) == l \notin {".", "/", " ", "#!"}

\* The lexemes that begin with "ts" or "js", and those two characters.
ScriptExt(l) ==
    CASE l \in {"ts", "tsx"} -> "ts"
      [] l \in {"js", "jsx", "json"} -> "js"
      [] OTHER -> ""

None == <<>>

(* --------------------------- find_all_files --------------------------- *)

SourceExts == {"ts", "js", "tsx", "jsx"}

\* root.glob('src/**/<ext>') for the four extensions, minus the paths that
\* contain 'node_modules'.
FindAllFiles(root) ==
    {f \in root.files :
        LET parts == PathParts(f)
            name == parts[Len(parts)]
        IN  /\ Len(parts) >= 2
            /\ parts[1] = <<"src">>
            /\ Len(name) >= 2
            /\ name[Len(name) - 1] = "."
            /\ name[Len(name)] \in SourceExts
            /\ ~HasWord(f, "node_modules")}

(* -------------------------- find_entry_points ------------------------- *)

\* pkg['bin']: each path with every './' removed.
BinEntryPoints(manifest) ==
    {Replace(path, <<".", "/">>, <<>>) : path \in manifest.bin}

\* The script commands that name a runtime.
NamesRuntime(cmd) ==
    HasWord(cmd, "tsx") \/ HasWord(cmd, "ts-node") \/ HasWord(cmd, "node")

\* The end of the run of [\w/\-] lexemes of cmd that starts at position k.
RECURSIVE RunEnd(_, _)
RunEnd(cmd, k) ==
    IF k <= Len(cmd) /\ (IsWordLexeme(cmd[k]) \/ cmd[k] = "/")
    THEN RunEnd(cmd, k + 1) ELSE k

\* Whether (src/[\w/\-]+\.(?:ts|js)) matches cmd at position i.
ScriptMatchAt(cmd, i) ==
    /\ i + 1 <= Len(cmd)
    /\ cmd[i] = "src"
    /\ cmd[i + 1] = "/"
    /\ LET k == RunEnd(cmd, i + 2)
       IN  /\ k > i + 2
           /\ k + 1 <= Len(cmd)
           /\ cmd[k] = "."
           /\ ScriptExt(cmd[k + 1]) # ""

\* re.search(r'(src/[\w/\-]+\.(?:ts|js))', cmd).group(1), None without a match.
ScriptMatch(cmd) ==
    LET starts == {i \in 1..Len(cmd) : ScriptMatchAt(cmd, i)}
    IN  IF starts = {} THEN None
        ELSE LET i == CHOOSE j \in starts : \A h \in starts : j <= h
                 k == RunEnd(cmd, i + 2)
             IN  SubSeq(cmd, i, k) \o <<ScriptExt(cmd[k + 1])>>

ScriptEntryPoints(manifest) ==
    {ScriptMatch(cmd) : cmd \in {c \in manifest.scripts : NamesRuntime(c)}}
        \ {None}

\* The entry points package.json gives.
ManifestEntryPoints(manifest) ==
    IF manifest.state = "absent" THEN {}
    ELSE BinEntryPoints(manifest) \cup ScriptEntryPoints(manifest)

\* 'node' in first_line or 'tsx' in first_line
NamesScriptRunner(first_line) ==
    HasWord(first_line, "node") \/ HasWord(first_line, "tsx")

\* A line of a bin script is modelled by the targets of the require(...) calls
\* on it, left to right; re.search finds the first of them.
RequireEntryPoints(lines) ==
    {Replace(lines[i][1], <<".", ".", "/">>, <<>>) :
        i \in {j \in 1..Len(lines) : lines[j] # <<>>}}

\* What one file of bin/ adds: its own path and, under a script-runner first
\* line, a require target of every later line that has one.
BinFileEntryPoints(file) ==
    {<<"bin", "/">> \o file.name}
        \cup (IF NamesScriptRunner(file.first_line)
              THEN RequireEntryPoints(file.lines) ELSE {})

(* ------------------- trace_dependencies, resolve_import ---------------- *)

\* The targets the four import patterns find in a text.
ExtractImports(text) ==
    {st.target : st \in {i \in text.imports :
                            i.form \in {"from", "bare", "require", "dynamic"}}}

\* Variant of Exts that tries the directory index files before the
\* extensions.
ExtsIndexFirst ==
    << <<>>, <<"/", "index", ".", "ts">>, <<"/", "index", ".", "js">>,
       <<".", "ts">>, <<".", "js">>, <<".", "tsx">>, <<".", "jsx">> >>

\* The suffixes resolve_import tries, in its order.
Exts ==
    << <<>>, <<".", "ts">>, <<".", "js">>, <<".", "tsx">>, <<".", "jsx">>,
       <<"/", "index", ".", "ts">>, <<"/", "index", ".", "js">> >>

\* import_path.replace('./', '').replace('../', '../')
CleanImportPath(import_path) ==
    Replace(Replace(import_path, <<".", "/">>, <<>>),
            <<".", ".", "/">>, <<".", ".", "/">>)

\* str((self.root / from_dir / rest).resolve().relative_to(self.root)), None
\* where relative_to raises ValueError.  An absolute rest replaces the root.
Potential(from_dir, rest) ==
    IF StartsWith(rest, <<"/">>) THEN None
    ELSE LET parts == ResolveParts(from_dir \o PathParts(rest), <<>>)
         IN  IF parts = OutsideRoot THEN None ELSE JoinParts(parts)

\* The candidates of an import, in the order they are tried.
Candidates(from_file, import_path) ==
    LET from_dir == Parent(PathParts(from_file))
        cleaned == CleanImportPath(import_path)
    IN  [i \in 1..Len(Exts) |-> Potential(from_dir, cleaned \o Exts[i])]

\* Variant of ResolveImport that falls back to the literal candidate when
\* none is a known file.
ResolveImportOrLiteral(all, from_file, import_path) ==
    LET cands == Candidates(from_file, import_path)
        hits == {i \in 1..Len(cands) : cands[i] # None /\ cands[i] \in all}
    IN  IF hits = {} THEN cands[1]
        ELSE cands[CHOOSE i \in hits : \A j \in hits : i <= j]

\* resolve_import: the first candidate that is a known file, None without one.
ResolveImport(all, from_file, import_path) ==
    LET cands == Candidates(from_file, import_path)
        hits == {i \in 1..Len(cands) : cands[i] # None /\ cands[i] \in all}
    IN  IF hits = {} THEN None
        ELSE cands[CHOOSE i \in hits : \A j \in hits : i <= j]

\* Variant of ResolvedImports without the test `if resolved`: what
\* resolve_import returns is kept, None included.
ResolvedImportsUntested(all, root, file_path) ==
    {ResolveImport(all, file_path, imp) :
        imp \in {t \in ExtractImports(root.text[file_path]) :
                    StartsWith(t, <<".">>)}}

\* The edges one file contributes: its relative imports that resolve.
ResolvedImports(all, root, file_path) ==
    {ResolveImport(all, file_path, imp) :
        imp \in {t \in ExtractImports(root.text[file_path]) :
                    StartsWith(t, <<".">>)}} \ {None}

\* defaultdict(set): d[key].add(value)
AddEdge(d, key, value) ==
    [k \in DOMAIN d \cup {key} |->
        IF k = key THEN (IF k \in DOMAIN d THEN d[k] ELSE {}) \cup {value}
        ELSE d[k]]

RECURSIVE AddEdges(_, _, _, _)
AddEdges(d, pairs, first, second) ==
    IF pairs = {} THEN d
    ELSE LET p == CHOOSE q \in pairs : TRUE
         IN  AddEdges(AddEdge(d, p[first], p[second]), pairs \ {p}, first, second)

\* d.get(key, [])
Get(d, key) == IF key \in DOMAIN d THEN d[key] ELSE {}

(* ----------------------- find_dashboard_components --------------------- *)

DashboardDir == <<<<"src">>, <<"dashboard">>>>

\* dashboard_dir.glob('*server*.ts') + dashboard_dir.glob('*server*.js')
ServerFiles(root) ==
    {f \in root.files :
        LET parts == PathParts(f)
            name == parts[Len(parts)]
        IN  /\ Len(parts) = 3
            /\ Parent(parts) = DashboardDir
            /\ Len(name) >= 3
            /\ name[Len(name) - 1] = "."
            /\ name[Len(name)] \in {"ts", "js"}
            /\ HasWord(SubSeq(name, 1, Len(name) - 2), "server")}

\* The lexemes that hold component, view or panel (any case); each of them
\* begins with the word, so the one character the pattern wants before the
\* word has to come from an earlier lexeme.
KeywordLexemes == {"component", "view", "panel", "Panel"}

\* The quoted strings of a text that the component pattern captures and that
\* hold '.js' or '.ts'.
ComponentRefs(text) ==
    {ref \in ExtractImports(text) \cup text.literals :
        /\ \E i \in 2..Len(ref) : ref[i] \in KeywordLexemes
        /\ \E i \in 1..(Len(ref) - 1) :
              ref[i] = "." /\ ScriptExt(ref[i + 1]) # ""}

(* ------------------------- calculate_usage ----------------------------- *)

\* The orders a set may be listed in.
Orders(S) ==
    {seq \in [1..Cardinality(S) -> S] :
        \A i, j \in 1..Cardinality(S) : i # j => seq[i] # seq[j]}

\* The path a component reference is marked used under.
ComponentFile(ref) ==
    LET comp_file == IF StartsWith(ref, <<".", "/">>)
                     THEN SubSeq(ref, 3, Len(ref)) ELSE ref
    IN  IF StartsWith(comp_file, <<"src", "/">>) THEN comp_file
        ELSE <<"src", "/", "dashboard", "/">> \o comp_file

(* -------------------------- generate_report ---------------------------- *)

\* Variant of RoundHalfEven that truncates.
RoundDown(n, d) == n \div d

\* round(n / d, 0) for n >= 0, d > 0: to the nearest integer, a tie to even.
RoundHalfEven(n, d) ==
    LET q == n \div d
        r == n % d
    IN  IF 2 * r < d THEN q
        ELSE IF 2 * r > d THEN q + 1
        ELSE IF q % 2 = 0 THEN q ELSE q + 1

\* Variant of UsagePercentage without the test for no files: the used files
\* over a universe of at least one.
UsagePercentageOfAtLeastOne(used, total) ==
    RoundHalfEven(used * 10000, IF total = 0 THEN 1 ELSE total)

\* round((used / total) * 100, 2), in hundredths of a percent; 0 for no files.
UsagePercentage(used, total) ==
    IF total = 0 THEN 0 ELSE RoundHalfEven(used * 10000, total)

\* Variant of UnusedFiles with the operands of the difference exchanged.
UnusedFilesExchanged(all, used) == used \ all

\* self.all_files - self.used_files
UnusedFiles(all, used) == all \ used

Report(all, used, entries, components) ==
    [summary |->
        [total_files |-> Cardinality(all),
         used_files |-> Cardinality(used),
         unused_files |-> Cardinality(UnusedFiles(all, used)),
         usage_percentage |-> UsagePercentage(Cardinality(used), Cardinality(all))],
     entry_points |-> entries,
     unused_files |-> UnusedFiles(all, used),
     component_map |-> components]

(* ----------------------------- the inputs ------------------------------ *)

\* Import graphs over three source files, two of which import: cycles,
\* self-imports, imports that resolve to nothing, files nothing imports;
\* zero to two entry points.
GraphProjects ==
    {Project(files, TextOf(files, statements, <<>>), {}, Manifest({}, scripts), {}) :
        <<files, statements, scripts>> \in
            {t \in (SUBSET {SrcEntryTs, SrcLibTs, SrcOrphanTs})
                   \X SubsetsUpTo({SrcEntryTs, SrcLibTs}
                                  \X {ImportLib, ImportEntry, ImportOrphan, ImportHelper},
                                  MaxImports)
                   \X {{}, {ScriptEntry}, {ScriptEntry, ScriptLib}} :
                \A st \in t[2] : st[1] \in t[1]}}

\* Trees for the resolver: a file and a directory index of the same name,
\* imports that climb to the parent directory, a package import, a vendored
\* file and a file that is no source file.
ResolverProjects ==
    {Project(files, TextOf(files, statements, <<>>), {}, Manifest({}, {ScriptEntry}), {}) :
        <<files, statements>> \in
            {t \in (SUBSET {SrcEntryTs, SrcFooTs, SrcFooIndexTs, SrcDXTs, SrcDEFTs})
                   \X SubsetsUpTo(({SrcEntryTs} \X {ImportFoo, ImportReact, ImportHelper})
                                  \cup ({SrcDEFTs} \X {ImportUpX, ImportUp, ImportFoo}),
                                  MaxImports) :
                \A st \in t[2] : st[1] \in t[1]}}
    \cup
    {Project({SrcEntryTs, SrcVendorTs, SrcReadme, SrcLibTs} \ drop,
             TextOf({SrcEntryTs, SrcVendorTs, SrcReadme, SrcLibTs} \ drop,
                    {<<SrcEntryTs, ImportLib>>}, <<>>),
             {}, Manifest({}, {ScriptEntry}), {}) :
        drop \in {{}, {SrcLibTs}}}

\* The files of bin/: a script with or without a script-runner first line,
\* with require calls on its later lines.
NodeLine == <<"#!", "/", "usr", "/", "bin", "/", "env", " ", "node">>
ShellLine == <<"#!", "/", "bin", "/", "sh">>
RequireCore == <<".", ".", "/", "src", "/", "core">>
RequireLib == <<".", ".", "/", "src", "/", "lib", ".", "ts">>

BinLines ==
    UNION {[1..n -> {<<>>, <<RequireCore>>, <<RequireLib>>, <<RequireCore, RequireLib>>}] :
              n \in 0..MaxLines}

BinFiles ==
    {[name |-> <<"cli", ".", "js">>, readable |-> r, first_line |-> fl, lines |-> ls] :
        r \in BOOLEAN, fl \in {NodeLine, ShellLine}, ls \in BinLines}

\* package.json with a bin mapping, script commands, a bin directory.
BinProjects ==
    {Project({SrcCoreTs, SrcLibTs},
             TextOf({SrcCoreTs, SrcLibTs}, {<<SrcCoreTs, ImportLib>>}, <<>>),
             {}, manifest, bin) :
        <<manifest, bin>> \in
            ({NoManifest, BadManifest}
                \cup {Manifest(b, sc) :
                        <<b, sc>> \in {{}, {<<".", "/">> \o BinCliJs}}
                                      \X {{}, {ScriptCoreTsx}, {ScriptBuild}}})
            \X ({{}} \cup {{f} : f \in BinFiles})}

\* A dashboard server file naming components in quoted strings.
RefPool ==
    {<<".", "/", "panel", ".", "ts">>,
     <<"panel", ".", "ts">>,
     <<".", "/", "panel">>,
     <<".", "/", "util", ".", "ts">>,
     <<"src", "/", "dashboard", "/", "view", ".", "js">>,
     <<".", "/", "src", "/", "panel", "/", "lib", ".", "ts">>}

DashboardProjects ==
    {Project(files,
             TextOf(files, statements, [f \in {ServerTs} |-> refs]),
             unreadable, Manifest({}, scripts), {}) :
        <<files, statements, refs, unreadable, scripts>> \in
            {t \in (SUBSET {ServerTs, PanelTs, SrcLibTs})
                   \X SubsetsUpTo({ServerTs} \X {ImportLib}, MaxImports)
                   \X SubsetsUpTo(RefPool, MaxRefs)
                   \X SubsetsUpTo({ServerTs, SrcLibTs}, 1)
                   \X {{}, {ScriptServer}} :
                /\ \A st \in t[2] : st[1] \in t[1]
                /\ t[4] \subseteq t[1]
                /\ (ServerTs \notin t[1] => t[3] = {})}}

\* A dashboard whose one server file has node_modules in its name: the glob
\* of find_dashboard_components lists it, find_all_files leaves it out.
VendoredProjects ==
    {Project({VendoredServerTs},
             TextOf({VendoredServerTs}, {}, [f \in {VendoredServerTs} |-> refs]),
             unreadable, Manifest({}, scripts), {}) :
        <<refs, unreadable, scripts>> \in
            SubsetsUpTo(RefPool, MaxRefs)
                \X {{}, {VendoredServerTs}}
                \X {{}, {ScriptEntry}}}

\* Source files that lie beside src/ instead of under it.
RootLevelProjects ==
    {Project(files, TextOf(files, statements, <<>>), {},
             Manifest({<<".", "/">> \o EntryTs}, {}), {}) :
        <<files, statements>> \in
            {t \in (SUBSET {EntryTs, LibTs, OrphanTs})
                   \X SUBSET {<<EntryTs, ImportLib>>, <<LibTs, ImportHelper>>} :
                \A st \in t[2] : st[1] \in t[1]}}

Projects ==
    GraphProjects \cup ResolverProjects \cup BinProjects
        \cup DashboardProjects \cup VendoredProjects \cup RootLevelProjects

(* ------------------------------ the state ------------------------------ *)

VARIABLES
    root,           \* the project the analyzer was constructed with
    pc,             \* the step of analyze() that runs next
    all_files, entry_points, dependencies, reverse_deps,
    used_files, component_map,     \* the fields of DependencyAnalyzer
    traced,         \* trace_dependencies: the files its loop has been through
    to_process, processed,         \* calculate_usage: the queue, the visited set
    report,         \* what analyze() returns
    raised          \* the exception that ended analyze(), if one did

\* validate-data.py, a script of its own: the state of a DataValidator.
VARIABLES
    observer,           \* the .observer directory the validator reads
    validate_pc,        \* the step of validate() that runs next
    check_no,           \* validate: the place of its loop in the checks list
    validation_results, \* the field of DataValidator
    validate_raised     \* the exception that ended validate(), if one did

analyzer_vars ==
    <<root, pc, all_files, entry_points, dependencies, reverse_deps, used_files,
      component_map, traced, to_process, processed, report, raised>>

validator_vars ==
    <<observer, validate_pc, check_no, validation_results, validate_raised>>

vars == <<analyzer_vars, validator_vars>>

NoException == <<>>

\* The process that runs analyze() constructs no DataValidator.
NoValidator ==
    /\ observer = <<>>
    /\ validate_pc = "absent"
    /\ check_no = 0
    /\ validation_results = <<>>
    /\ validate_raised = NoException

\* The process that runs validate() constructs no DependencyAnalyzer.
NoAnalyzer ==
    /\ root = <<>>
    /\ pc = "absent"
    /\ all_files = {}
    /\ entry_points = {}
    /\ dependencies = <<>>
    /\ reverse_deps = <<>>
    /\ used_files = {}
    /\ component_map = <<>>
    /\ traced = {}
    /\ to_process = <<>>
    /\ processed = {}
    /\ report = <<>>
    /\ raised = NoException

\* __init__
Init ==
    /\ root \in Projects
    /\ pc = "find_all_files"
    /\ all_files = {}
    /\ entry_points = {}
    /\ dependencies = <<>>
    /\ reverse_deps = <<>>
    /\ used_files = {}
    /\ component_map = <<>>
    /\ traced = {}
    /\ to_process = <<>>
    /\ processed = {}
    /\ report = <<>>
    /\ raised = NoException
    /\ NoValidator

(* ------------------------------ analyze() ------------------------------ *)

\* 1. find_all_files
FindAllFilesStep ==
    /\ pc = "find_all_files"
    /\ all_files' = all_files \cup FindAllFiles(root)
    /\ pc' = "find_entry_points"
    /\ UNCHANGED <<validator_vars, root, entry_points, dependencies, reverse_deps, used_files,
                   component_map, traced, to_process, processed, report, raised>>

\* 2. find_entry_points, package.json parsed or absent and every file of
\* bin/ readable.
FindEntryPoints ==
    /\ pc = "find_entry_points"
    /\ root.manifest.state # "malformed"
    /\ \A file \in root.bin : file.readable
    /\ entry_points' = entry_points
            \cup ManifestEntryPoints(root.manifest)
            \cup UNION {BinFileEntryPoints(file) : file \in root.bin}
    /\ pc' = "trace_dependencies"
    /\ UNCHANGED <<validator_vars, root, all_files, dependencies, reverse_deps, used_files,
                   component_map, traced, to_process, processed, report, raised>>

\* 2. find_entry_points, json.load raising on a malformed package.json.
FindEntryPointsManifestRaises ==
    /\ pc = "find_entry_points"
    /\ root.manifest.state = "malformed"
    /\ raised' = <<"json.load", <<"package", ".", "json">>>>
    /\ pc' = "error"
    /\ UNCHANGED <<validator_vars, root, all_files, entry_points, dependencies, reverse_deps,
                   used_files, component_map, traced, to_process, processed, report>>

\* 2. find_entry_points, open or readline raising on a file of bin/: the
\* files the glob listed before it have been handled, and its own path added.
FindEntryPointsBinRaises ==
    /\ pc = "find_entry_points"
    /\ root.manifest.state # "malformed"
    /\ \E file \in root.bin :
        /\ ~file.readable
        /\ \E before \in SUBSET {g \in root.bin : g.readable} :
              entry_points' = entry_points
                  \cup ManifestEntryPoints(root.manifest)
                  \cup UNION {BinFileEntryPoints(g) : g \in before}
                  \cup {<<"bin", "/">> \o file.name}
        /\ raised' = <<"open", <<"bin", "/">> \o file.name>>
    /\ pc' = "error"
    /\ UNCHANGED <<validator_vars, root, all_files, dependencies, reverse_deps, used_files,
                   component_map, traced, to_process, processed, report>>

\* Variant of TraceFile that records the forward edges only.
TraceFileForwardOnly(file_path) ==
    /\ pc = "trace_dependencies"
    /\ file_path \in all_files \ traced
    /\ file_path \notin root.unreadable
    /\ traced' = traced \cup {file_path}
    /\ LET edges == IF file_path \in root.files
                    THEN {<<file_path, resolved>> :
                            resolved \in ResolvedImports(all_files, root, file_path)}
                    ELSE {}
       IN  dependencies' = AddEdges(dependencies, edges, 1, 2)
    /\ UNCHANGED <<validator_vars, root, pc, all_files, entry_points, reverse_deps, used_files,
                   component_map, to_process, processed, report, raised>>

\* 3. trace_dependencies, one turn of its loop over all_files (a set: any
\* order).  A file missing from the tree is passed over.
TraceFile(file_path) ==
    /\ pc = "trace_dependencies"
    /\ file_path \in all_files \ traced
    /\ file_path \notin root.unreadable
    /\ traced' = traced \cup {file_path}
    /\ LET edges == IF file_path \in root.files
                    THEN {<<file_path, resolved>> :
                            resolved \in ResolvedImports(all_files, root, file_path)}
                    ELSE {}
       IN  /\ dependencies' = AddEdges(dependencies, edges, 1, 2)
           /\ reverse_deps' = AddEdges(reverse_deps, edges, 2, 1)
    /\ UNCHANGED <<validator_vars, root, pc, all_files, entry_points, used_files, component_map,
                   to_process, processed, report, raised>>

\* 3. trace_dependencies, open raising on a file that cannot be read.
TraceFileRaises(file_path) ==
    /\ pc = "trace_dependencies"
    /\ file_path \in all_files \ traced
    /\ file_path \in root.unreadable
    /\ raised' = <<"open", file_path>>
    /\ pc' = "error"
    /\ UNCHANGED <<validator_vars, root, all_files, entry_points, dependencies, reverse_deps,
                   used_files, component_map, traced, to_process, processed, report>>

\* 3. trace_dependencies returns.
TraceDependenciesReturn ==
    /\ pc = "trace_dependencies"
    /\ traced = all_files
    /\ pc' = "find_dashboard_components"
    /\ UNCHANGED <<validator_vars, root, all_files, entry_points, dependencies, reverse_deps,
                   used_files, component_map, traced, to_process, processed,
                   report, raised>>

\* The maps the loop of find_dashboard_components can leave after the given
\* server files: each reference mapped to a server file whose text holds it
\* (the last such file the globs list).
ComponentMapsFrom(root_, servers) ==
    LET refs == UNION {ComponentRefs(root_.text[sf]) : sf \in servers}
    IN  {m \in [refs -> servers] :
            \A ref \in refs : ref \in ComponentRefs(root_.text[m[ref]])}

\* The maps find_dashboard_components can leave.
ComponentMaps(root_) ==
    LET servers == IF \E f \in root_.files :
                        Len(PathParts(f)) >= 3
                        /\ SubSeq(PathParts(f), 1, 2) = DashboardDir
                   THEN ServerFiles(root_) ELSE {}
    IN  ComponentMapsFrom(root_, servers)

\* 4. find_dashboard_components, every server file readable.
FindDashboardComponents ==
    /\ pc = "find_dashboard_components"
    /\ ServerFiles(root) \cap root.unreadable = {}
    /\ \E found \in ComponentMaps(root) :
          component_map' = [ref \in DOMAIN component_map \cup DOMAIN found |->
                               IF ref \in DOMAIN found THEN found[ref]
                               ELSE component_map[ref]]
    /\ pc' = "calculate_usage"
    /\ UNCHANGED <<validator_vars, root, all_files, entry_points, dependencies, reverse_deps,
                   used_files, traced, to_process, processed, report, raised>>

\* 4. find_dashboard_components, open raising on a server file: the server
\* files the globs listed before it have been handled.  A server file that
\* find_all_files collected was opened by trace_dependencies before, so this
\* is a server file with node_modules in its path.
FindDashboardComponentsRaises ==
    /\ pc = "find_dashboard_components"
    /\ \E server_file \in ServerFiles(root) \cap root.unreadable :
        /\ \E before \in SUBSET (ServerFiles(root) \ root.unreadable) :
            \E found \in ComponentMapsFrom(root, before) :
              component_map' = [ref \in DOMAIN component_map \cup DOMAIN found |->
                                   IF ref \in DOMAIN found THEN found[ref]
                                   ELSE component_map[ref]]
        /\ raised' = <<"open", server_file>>
    /\ pc' = "error"
    /\ UNCHANGED <<validator_vars, root, all_files, entry_points, dependencies, reverse_deps,
                   used_files, traced, to_process, processed, report>>

\* 5. calculate_usage: to_process = list(self.entry_points), in any order.
CalculateUsage ==
    /\ pc = "calculate_usage"
    /\ to_process' \in Orders(entry_points)
    /\ processed' = {}
    /\ pc' = "while"
    /\ UNCHANGED <<validator_vars, root, all_files, entry_points, dependencies, reverse_deps,
                   used_files, component_map, traced, report, raised>>

\* Variant of Pop that reads the head and leaves it in the queue.
PopKeepsHead(queue) == queue

\* to_process.pop(0): what is left of the queue.
Pop(queue) == Tail(queue)

\* processed.add(current)
MarkProcessed(done, current) == done \cup {current}

\* Variant of Unprocessed with the membership test inverted.
UnprocessedInverted(deps, done) == {dep \in deps : dep \in done}

\* for dep in deps: if dep not in processed
Unprocessed(deps, done) == {dep \in deps : dep \notin done}

\* Variant of WhileSkip that leaves the loop (break) instead of going on.
WhileSkipBreak ==
    /\ pc = "while"
    /\ to_process # <<>>
    /\ Head(to_process) \in processed
    /\ to_process' = <<>>
    /\ UNCHANGED <<validator_vars, root, pc, all_files, entry_points, dependencies, reverse_deps,
                   used_files, component_map, traced, processed, report, raised>>

\* Variant of WhileSkip without the test of line 165: the node is expanded
\* again.
WhileSkipExpands ==
    /\ pc = "while"
    /\ to_process # <<>>
    /\ Head(to_process) \in processed
    /\ \E deps \in Orders(Get(dependencies, Head(to_process))) :
          to_process' = Pop(to_process) \o deps
    /\ UNCHANGED <<validator_vars, root, pc, all_files, entry_points, dependencies, reverse_deps,
                   used_files, component_map, traced, processed, report, raised>>

\* The loop pops a node that was processed before: continue.
WhileSkip ==
    /\ pc = "while"
    /\ to_process # <<>>
    /\ Head(to_process) \in processed
    /\ to_process' = Pop(to_process)
    /\ UNCHANGED <<validator_vars, root, pc, all_files, entry_points, dependencies, reverse_deps,
                   used_files, component_map, traced, processed, report, raised>>

\* The loop pops a new node: it is processed and used, and its dependencies
\* that are not processed are appended (a set: in any order).
WhileVisit ==
    /\ pc = "while"
    /\ to_process # <<>>
    /\ Head(to_process) \notin processed
    /\ LET current == Head(to_process)
       IN  /\ processed' = MarkProcessed(processed, current)
           /\ used_files' = used_files \cup {current}
           /\ \E deps \in Orders(Unprocessed(Get(dependencies, current),
                                             processed')) :
                 to_process' = Pop(to_process) \o deps
    /\ UNCHANGED <<validator_vars, root, pc, all_files, entry_points, dependencies, reverse_deps,
                   component_map, traced, report, raised>>

\* The queue is empty: the loop ends.
WhileExit ==
    /\ pc = "while"
    /\ to_process = <<>>
    /\ pc' = "add_components"
    /\ UNCHANGED <<validator_vars, root, all_files, entry_points, dependencies, reverse_deps,
                   used_files, component_map, traced, to_process, processed,
                   report, raised>>

\* Variant of ComponentFiles that takes the values of the map, the server
\* file paths.
ComponentFilesFromValues(components) ==
    {components[ref] : ref \in DOMAIN components}

\* The paths the component map marks used: one for each of its keys.
ComponentFiles(components) == {ComponentFile(ref) : ref \in DOMAIN components}

\* 5. calculate_usage, after the loop: add dashboard components.
AddDashboardComponents ==
    /\ pc = "add_components"
    /\ used_files' = used_files \cup ComponentFiles(component_map)
    /\ pc' = "generate_report"
    /\ UNCHANGED <<validator_vars, root, all_files, entry_points, dependencies, reverse_deps,
                   component_map, traced, to_process, processed, report, raised>>

\* 6. generate_report
GenerateReport ==
    /\ pc = "generate_report"
    /\ report' = Report(all_files, used_files, entry_points, component_map)
    /\ pc' = "done"
    /\ UNCHANGED <<validator_vars, root, all_files, entry_points, dependencies, reverse_deps,
                   used_files, component_map, traced, to_process, processed, raised>>

Next ==
    \/ FindAllFilesStep
    \/ FindEntryPoints
    \/ FindEntryPointsManifestRaises
    \/ FindEntryPointsBinRaises
    \/ \E file_path \in all_files : TraceFile(file_path)
    \/ \E file_path \in all_files : TraceFileRaises(file_path)
    \/ TraceDependenciesReturn
    \/ FindDashboardComponents
    \/ FindDashboardComponentsRaises
    \/ CalculateUsage
    \/ WhileSkip
    \/ WhileVisit
    \/ WhileExit
    \/ AddDashboardComponents
    \/ GenerateReport

Spec == Init /\ [][Next]_vars

\* analyze() runs in one thread and nothing suspends it: while the loop of
\* calculate_usage can take a turn, it takes it.
FairSpec == Init /\ [][Next]_vars /\ WF_vars(WhileSkip \/ WhileVisit)

(* ---------------------- validate-data.py: the inputs ------------------- *)

MaxIssues == 2

\* The issues of FIX_THIS.json: a rule name and a message.  'contract' is in
\* the lower-cased rule or message of the first two; the rule of the third
\* holds one of the three drift rule names, that of the fourth holds it in
\* another case.
IssueContractRule == [rule |-> "Contract Violation", message |-> "missing field"]
IssueContractMessage == [rule |-> "Type Safety", message |-> "breaks the contract"]
IssueDrift == [rule |-> "File Size Warnings", message |-> "file too long"]
IssueDriftLower == [rule |-> "file size warnings", message |-> "file too long"]

\* 'contract' in s.lower()
HasContract(s) == s \in {"Contract Violation", "breaks the contract"}

\* any(r in rule for r in ai_drift_rules)
HasDriftRule(rule) == rule \in {"File Size Warnings"}

\* A bucket of issue_buckets: with its 'name' and 'count' keys or without.
Bucket(keyed, count, issues) ==
    [keyed |-> keyed, count |-> count, issues |-> issues]

BucketLists ==
    {<<>>,
     <<Bucket(TRUE, 1, <<IssueContractRule>>)>>,
     <<Bucket(TRUE, 2, <<IssueDrift>>)>>,
     <<Bucket(TRUE, 1, <<IssueContractMessage>>),
       Bucket(TRUE, 1, <<IssueDrift>>)>>,
     <<Bucket(TRUE, 1, <<IssueDriftLower>>)>>,
     <<Bucket(FALSE, 0, <<>>)>>}

\* data['generated']: missing, not an ISO timestamp, or the age it gives.
Generated == {"", "yesterday", "fresh", "recent", "stale"}

\* A JSON file of the directory: absent, not JSON, or parsed.
JsonStates == {"absent", "malformed", "parsed"}

FixThisFiles ==
    {[state |-> st, issue_buckets |-> <<>>, by_severity |-> FALSE,
      generated |-> ""] : st \in {"absent", "malformed"}}
    \cup {[state |-> "parsed", issue_buckets |-> b, by_severity |-> sev,
           generated |-> g] :
             b \in BucketLists, sev \in BOOLEAN, g \in Generated}

SmartAnalysisFiles ==
    {[state |-> st, total_issues_found |-> 0] : st \in {"absent", "malformed"}}
    \cup {[state |-> "parsed", total_issues_found |-> n] : n \in 0..MaxIssues}

\* What curl prints for the dashboard API, or that running it raised.
ApiAnswers == {"200", "500", "raised"}

\* The .observer directories: missing, or with any of the files.
ObserverDirs ==
    {[exists |-> FALSE,
      fix_this |-> [state |-> "absent", issue_buckets |-> <<>>,
                    by_severity |-> FALSE, generated |-> ""],
      smart_analysis |-> [state |-> "absent", total_issues_found |-> 0],
      nine_rules |-> "absent", tables |-> "absent", hook_analysis |-> "absent",
      api |-> a, validation_results |-> <<>>] : a \in ApiAnswers}
    \cup {[exists |-> TRUE, fix_this |-> f, smart_analysis |-> sm,
           nine_rules |-> n, tables |-> t, hook_analysis |-> h, api |-> a,
           validation_results |-> <<>>] :
             f \in FixThisFiles, sm \in SmartAnalysisFiles, n \in JsonStates,
             t \in JsonStates, h \in JsonStates, a \in ApiAnswers}

(* ------------------------ validate-data.py: checks --------------------- *)

\* What a check function returns, or the exception it raises.
Result(status) == [status |-> status]
Raises(exception) == [raises |-> exception]
Returned(result) == "status" \in DOMAIN result

RECURSIVE Sum(_, _)
Sum(seq, field) ==
    IF seq = <<>> THEN 0
    ELSE (IF field = "count" THEN Head(seq).count ELSE Len(Head(seq).issues))
            + Sum(Tail(seq), field)

\* for bucket in buckets: for issue in bucket.get('issues', [])
Issues(buckets) ==
    UNION {{b.issues[i] : i \in 1..Len(b.issues)} :
              b \in {buckets[j] : j \in 1..Len(buckets)}}

Unkeyed(buckets) == \E j \in 1..Len(buckets) : ~buckets[j].keyed

check_fix_this_exists(o) ==
    IF o.fix_this.state = "absent" THEN Result("fail")
    ELSE IF o.fix_this.state = "malformed" THEN Raises("JSONDecodeError")
    ELSE Result("pass")

check_fix_this_buckets(o) ==
    IF o.fix_this.state = "absent" THEN Result("fail")
    ELSE IF o.fix_this.state = "malformed" THEN Raises("JSONDecodeError")
    ELSE IF o.fix_this.issue_buckets = <<>> THEN Result("fail")
    ELSE IF Unkeyed(o.fix_this.issue_buckets) THEN Raises("KeyError")
    ELSE Result("pass")

check_smart_analysis(o) ==
    IF o.smart_analysis.state = "absent" THEN Result("warning")
    ELSE IF o.smart_analysis.state = "malformed" THEN Raises("JSONDecodeError")
    ELSE Result("pass")

check_nine_rules(o) ==
    IF o.nine_rules = "absent" THEN Result("warning")
    ELSE IF o.nine_rules = "malformed" THEN Raises("JSONDecodeError")
    ELSE Result("pass")

check_table_mappings(o) ==
    IF o.tables = "absent" THEN Result("warning")
    ELSE IF o.tables = "malformed" THEN Raises("JSONDecodeError")
    ELSE Result("pass")

check_hook_analysis(o) ==
    IF o.hook_analysis = "absent" THEN Result("warning")
    ELSE IF o.hook_analysis = "malformed" THEN Raises("JSONDecodeError")
    ELSE Result("pass")

check_contract_compliance(o) ==
    IF o.fix_this.state = "absent" THEN Result("fail")
    ELSE IF o.fix_this.state = "malformed" THEN Raises("JSONDecodeError")
    ELSE IF \E issue \in Issues(o.fix_this.issue_buckets) :
                HasContract(issue.rule) \/ HasContract(issue.message)
         THEN Result("pass")
    ELSE Result("fail")

check_ai_drift(o) ==
    IF o.fix_this.state = "absent" THEN Result("fail")
    ELSE IF o.fix_this.state = "malformed" THEN Raises("JSONDecodeError")
    ELSE IF \E issue \in Issues(o.fix_this.issue_buckets) :
                HasDriftRule(issue.rule)
         THEN Result("pass")
    ELSE Result("fail")

check_dashboard_api(o) ==
    IF o.api = "200" THEN Result("pass") ELSE Result("warning")

check_issue_counts(o) ==
    IF o.fix_this.state = "malformed" THEN Raises("JSONDecodeError")
    ELSE IF o.fix_this.state = "parsed" /\ Unkeyed(o.fix_this.issue_buckets)
    THEN Raises("KeyError")
    ELSE IF o.smart_analysis.state = "malformed" THEN Raises("JSONDecodeError")
    ELSE LET buckets == o.fix_this.issue_buckets
             counts ==
                 (IF o.fix_this.state = "parsed" /\ buckets # <<>>
                  THEN {Sum(buckets, "issues"), Sum(buckets, "count")}
                  ELSE {})
                 \cup (IF o.smart_analysis.state = "parsed"
                       THEN {o.smart_analysis.total_issues_found} ELSE {})
         IN  IF Cardinality(counts) = 1 THEN Result("pass")
             ELSE Result("warning")

check_severity_distribution(o) ==
    IF o.fix_this.state = "absent" THEN Result("fail")
    ELSE IF o.fix_this.state = "malformed" THEN Raises("JSONDecodeError")
    ELSE IF o.fix_this.by_severity THEN Result("pass")
    ELSE Result("warning")

check_timestamp_freshness(o) ==
    IF o.fix_this.state = "absent" THEN Result("fail")
    ELSE IF o.fix_this.state = "malformed" THEN Raises("JSONDecodeError")
    ELSE CASE o.fix_this.generated = "fresh" -> Result("pass")
           [] o.fix_this.generated = "recent" -> Result("warning")
           [] o.fix_this.generated = "stale" -> Result("fail")
           [] OTHER -> Result("warning")

\* d[key] = value
AddKey(d, key, value) ==
    [k \in DOMAIN d \cup {key} |-> IF k = key THEN value ELSE d[k]]

\* checks, the list validate() goes through.
Checks ==
    << <<"FIX_THIS.json exists", "check_fix_this_exists">>,
       <<"FIX_THIS has issue buckets", "check_fix_this_buckets">>,
       <<"Smart analysis data exists", "check_smart_analysis">>,
       <<"Contract compliance included", "check_contract_compliance">>,
       <<"Nine rules validation working", "check_nine_rules">>,
       <<"AI drift detection present", "check_ai_drift">>,
       <<"Dashboard API responding", "check_dashboard_api">>,
       <<"Issue counts consistent", "check_issue_counts">>,
       <<"Table mappings present", "check_table_mappings">>,
       <<"Hook analysis present", "check_hook_analysis">>,
       <<"Severity distribution valid", "check_severity_distribution">>,
       <<"Analysis timestamp recent", "check_timestamp_freshness">> >>

\* check_func()
Call(check_func, o) ==
    CASE check_func = "check_fix_this_exists" -> check_fix_this_exists(o)
      [] check_func = "check_fix_this_buckets" -> check_fix_this_buckets(o)
      [] check_func = "check_smart_analysis" -> check_smart_analysis(o)
      [] check_func = "check_contract_compliance" -> check_contract_compliance(o)
      [] check_func = "check_nine_rules" -> check_nine_rules(o)
      [] check_func = "check_ai_drift" -> check_ai_drift(o)
      [] check_func = "check_dashboard_api" -> check_dashboard_api(o)
      [] check_func = "check_issue_counts" -> check_issue_counts(o)
      [] check_func = "check_table_mappings" -> check_table_mappings(o)
      [] check_func = "check_hook_analysis" -> check_hook_analysis(o)
      [] check_func = "check_severity_distribution" ->
            check_severity_distribution(o)
      [] check_func = "check_timestamp_freshness" -> check_timestamp_freshness(o)

\* Variant of Tally whose last branch is an elif on 'fail' with nothing
\* counted there.
TallyWithoutElse(summary, result) ==
    LET counted == [summary EXCEPT !.total_checks = @ + 1]
    IN  IF result.status = "pass" THEN [counted EXCEPT !.passed = @ + 1]
        ELSE IF result.status = "warning"
        THEN [counted EXCEPT !.warnings = @ + 1]
        ELSE counted

\* The summary after one more result: total_checks and one counter go up.
Tally(summary, result) ==
    LET counted == [summary EXCEPT !.total_checks = @ + 1]
    IN  IF result.status = "pass" THEN [counted EXCEPT !.passed = @ + 1]
        ELSE IF result.status = "warning"
        THEN [counted EXCEPT !.warnings = @ + 1]
        ELSE [counted EXCEPT !.failed = @ + 1]

(* ----------------------- validate-data.py: validate -------------------- *)

\* DataValidator.__init__ (the timestamp field is left out).
ValidatorInit ==
    /\ observer \in ObserverDirs
    /\ validate_pc = "validate"
    /\ check_no = 0
    /\ validation_results =
          [checks |-> <<>>,
           summary |-> [total_checks |-> 0, passed |-> 0, failed |-> 0,
                        warnings |-> 0]]
    /\ validate_raised = NoException
    /\ NoAnalyzer

\* validate() defines its checks and enters the loop.
Validate ==
    /\ validate_pc = "validate"
    /\ check_no' = 1
    /\ validate_pc' = "for"
    /\ UNCHANGED <<analyzer_vars, observer, validation_results, validate_raised>>

\* One turn of the loop: the check returns, its result is recorded under its
\* name and counted.
RunCheck ==
    /\ validate_pc = "for"
    /\ check_no <= Len(Checks)
    /\ LET check_name == Checks[check_no][1]
           result == Call(Checks[check_no][2], observer)
       IN  /\ Returned(result)
           /\ validation_results' =
                 [checks |-> AddKey(validation_results.checks, check_name, result),
                  summary |-> Tally(validation_results.summary, result)]
    /\ check_no' = check_no + 1
    /\ UNCHANGED <<analyzer_vars, observer, validate_pc, validate_raised>>

\* One turn of the loop, the check raising: nothing is recorded.
RunCheckRaises ==
    /\ validate_pc = "for"
    /\ check_no <= Len(Checks)
    /\ LET result == Call(Checks[check_no][2], observer)
       IN  /\ ~Returned(result)
           /\ validate_raised' = <<result.raises, Checks[check_no][2]>>
    /\ validate_pc' = "error"
    /\ UNCHANGED <<analyzer_vars, observer, check_no, validation_results>>

\* The list is at its end.
ForExit ==
    /\ validate_pc = "for"
    /\ check_no > Len(Checks)
    /\ validate_pc' = "save_results"
    /\ UNCHANGED <<analyzer_vars, observer, check_no, validation_results,
                   validate_raised>>

\* save_results: validation_results.json is written into the directory.
SaveResults ==
    /\ validate_pc = "save_results"
    /\ observer.exists
    /\ observer' = [observer EXCEPT !.validation_results = validation_results]
    /\ validate_pc' = "print_summary"
    /\ UNCHANGED <<analyzer_vars, check_no, validation_results, validate_raised>>

\* save_results, open raising: there is no directory to write into.
SaveResultsRaises ==
    /\ validate_pc = "save_results"
    /\ ~observer.exists
    /\ validate_raised' = <<"FileNotFoundError", "save_results">>
    /\ validate_pc' = "error"
    /\ UNCHANGED <<analyzer_vars, observer, check_no, validation_results>>

\* print_summary only prints.
PrintSummary ==
    /\ validate_pc = "print_summary"
    /\ validate_pc' = "done"
    /\ UNCHANGED <<analyzer_vars, observer, check_no, validation_results,
                   validate_raised>>

ValidatorNext ==
    \/ Validate
    \/ RunCheck
    \/ RunCheckRaises
    \/ ForExit
    \/ SaveResults
    \/ SaveResultsRaises
    \/ PrintSummary

ValidatorSpec == ValidatorInit /\ [][ValidatorNext]_vars

(* ------------------------------ properties ----------------------------- *)

\* The nodes a set of nodes reaches by zero or more edges of d.
RECURSIVE Reachable(_, _)
Reachable(nodes, d) ==
    LET more == nodes \cup UNION {Get(d, n) : n \in nodes}
    IN  IF more = nodes THEN nodes ELSE Reachable(more, d)

\* C1: after analyze() completes, every file reachable from an entry point
\* by zero or more edges of dependencies is in used_files.
C1_ReachableFilesAreUsed ==
    pc = "done" => Reachable(entry_points, dependencies) \subseteq used_files

\* A completed run where a file two imports away from the only entry point,
\* and not imported by it, is used.
C1_Witness ==
    /\ pc = "done"
    /\ entry_points = {SrcEntryTs}
    /\ SrcOrphanTs \in Get(dependencies, SrcLibTs)
    /\ SrcOrphanTs \notin Get(dependencies, SrcEntryTs)
    /\ SrcOrphanTs \in Reachable(entry_points, dependencies)
    /\ SrcOrphanTs \in used_files

\* C2 as stated: after analyze() completes, every file of all_files with no
\* path from an entry point is listed in the report's unused_files.
C2_UnreachableFilesAreUnused ==
    pc = "done" =>
        all_files \ Reachable(entry_points, dependencies)
            \subseteq report.unused_files

\* C2, amended: after analyze() completes, every file of all_files that has
\* no path from an entry point and is not the path a key of the component map
\* is marked used under is listed in the report's unused_files.
C2_UnreachableUnnamedFilesAreUnused ==
    pc = "done" =>
        all_files \ (Reachable(entry_points, dependencies)
                        \cup ComponentFiles(component_map))
            \subseteq report.unused_files

\* A completed run that reports an unreachable file unused while another
\* unreachable file is named by the component map.
C2_Witness ==
    /\ pc = "done"
    /\ \E g \in all_files \ Reachable(entry_points, dependencies) :
          g \notin ComponentFiles(component_map) /\ g \in report.unused_files
    /\ \E h \in all_files \ Reachable(entry_points, dependencies) :
          h \in ComponentFiles(component_map)

\* C3: the worklist loop of calculate_usage terminates: whenever the loop is
\* running, its queue eventually becomes empty, cycles and self-imports
\* included.
C3_LoopTerminates == (pc = "while") ~> (to_process = <<>>)

\* The loop has ended on a graph where entry.ts and lib.ts import each other
\* and entry.ts imports itself.
C3_Witness ==
    /\ pc = "add_components"
    /\ to_process = <<>>
    /\ SrcLibTs \in Get(dependencies, SrcEntryTs)
    /\ SrcEntryTs \in Get(dependencies, SrcLibTs)
    /\ SrcEntryTs \in Get(dependencies, SrcEntryTs)
    /\ {SrcEntryTs, SrcLibTs} \subseteq processed

\* The relative import targets of a file.
RelativeImports(f) ==
    {t \in ExtractImports(root.text[f]) : StartsWith(t, <<".">>)}

\* The targets of the shape './name'.
IsSiblingImport(t) ==
    Len(t) = 3 /\ t[1] = "." /\ t[2] = "/" /\ IsWordLexeme(t[3])

\* For a file f and a name beside it: the literal path, the path with .ts,
\* .js, .tsx, .jsx appended, then name/index.ts and name/index.js.
NamedCandidates(f, name) ==
    LET base == JoinParts(Parent(PathParts(f))) \o <<"/", name>>
    IN  << base,
           base \o <<".", "ts">>, base \o <<".", "js">>,
           base \o <<".", "tsx">>, base \o <<".", "jsx">>,
           base \o <<"/", "index", ".", "ts">>,
           base \o <<"/", "index", ".", "js">> >>

\* The first element of a sequence that is in a set, None without one.
FirstMember(seq, S) ==
    LET hits == {i \in 1..Len(seq) : seq[i] \in S}
    IN  IF hits = {} THEN None
        ELSE seq[CHOOSE i \in hits : \A j \in hits : i <= j]

\* C4: resolve_import tries the literal target, then target + .ts, .js, .tsx,
\* .jsx, then target/index.ts and target/index.js, and the first of them that
\* is in all_files is the edge recorded; './foo' with foo.ts and foo/index.ts
\* both known resolves to foo.ts.
C4_FirstCandidateWins ==
    /\ \A f \in traced :
          LET siblings == {t \in RelativeImports(f) : IsSiblingImport(t)}
              firsts == {FirstMember(NamedCandidates(f, t[3]), all_files) :
                            t \in siblings} \ {None}
          IN  /\ firsts \subseteq Get(dependencies, f)
              /\ siblings = RelativeImports(f) => Get(dependencies, f) = firsts
    /\ (/\ SrcEntryTs \in traced
        /\ {SrcFooTs, SrcFooIndexTs} \subseteq all_files
        /\ RelativeImports(SrcEntryTs) = {ImportFoo.target})
          => Get(dependencies, SrcEntryTs) = {SrcFooTs}

\* entry.ts, importing only './foo', has been traced with foo.ts and
\* foo/index.ts both known, and its one edge goes to foo.ts.
C4_Witness ==
    /\ SrcEntryTs \in traced
    /\ {SrcFooTs, SrcFooIndexTs} \subseteq all_files
    /\ RelativeImports(SrcEntryTs) = {ImportFoo.target}
    /\ dependencies[SrcEntryTs] = {SrcFooTs}

\* C5: an import target that begins with '..' is resolved against the
\* directory of the declaring file: a traced file in d/e that imports '../x'
\* has an edge to d/x.ts when d/x.ts is in all_files.
C5_ParentImportsResolve ==
    \A f \in traced :
        \A t \in RelativeImports(f) :
            (/\ Len(t) = 4
             /\ SubSeq(t, 1, 3) = <<".", ".", "/">>
             /\ IsWordLexeme(t[4])
             /\ Len(PathParts(f)) >= 3)
            => LET up == JoinParts(Parent(Parent(PathParts(f))))
                   target == up \o <<"/", t[4], ".", "ts">>
               IN  target \in all_files => target \in Get(dependencies, f)

\* C6 as stated: after the closure the values of the component map, the
\* server file paths, are in used_files.
C6_ServerPathsAreUsed ==
    pc \in {"generate_report", "done"} =>
        \A ref \in DOMAIN component_map : component_map[ref] \in used_files

\* C6, amended: after the closure the keys of the component map, each without
\* a leading './' and, unless it then begins with 'src/', behind
\* 'src/dashboard/', are in used_files.
C6_ComponentKeysAreUsed ==
    pc \in {"generate_report", "done"} =>
        /\ \A ref \in DOMAIN component_map :
              LET key == IF StartsWith(ref, <<".", "/">>)
                         THEN SubSeq(ref, 3, Len(ref)) ELSE ref
              IN  IF StartsWith(key, <<"src", "/">>) THEN key \in used_files
                  ELSE <<"src", "/", "dashboard", "/">> \o key \in used_files
        /\ <<".", "/", "panel", ".", "ts">> \in DOMAIN component_map
              => PanelTs \in used_files
        /\ <<".", "/", "src", "/", "panel", "/", "lib", ".", "ts">>
                \in DOMAIN component_map
              => <<"src", "/", "panel", "/", "lib", ".", "ts">> \in used_files

\* A completed run whose component map sends './panel.ts' to server.ts:
\* panel.ts is used and server.ts is not.
C6_Witness ==
    /\ pc = "done"
    /\ <<".", "/", "panel", ".", "ts">> \in DOMAIN component_map
    /\ component_map[<<".", "/", "panel", ".", "ts">>] = ServerTs
    /\ PanelTs \in used_files
    /\ ServerTs \notin used_files

\* The manifest maps a command to ./bin/cli.js, and bin/cli.js has a first
\* line naming a script runner and a line with require("../src/core"); the
\* source file of src/core is src/core.ts.
C7_Scenario ==
    /\ root.manifest.state = "parsed"
    /\ <<".", "/">> \o BinCliJs \in root.manifest.bin
    /\ \E file \in root.bin :
          /\ file.name = <<"cli", ".", "js">>
          /\ file.readable
          /\ NamesScriptRunner(file.first_line)
          /\ \E i \in 1..Len(file.lines) :
                file.lines[i] # <<>> /\ file.lines[i][1] = RequireCore
    /\ SrcCoreTs \in root.files

\* C7: in that scenario the entry points include bin/cli.js and src/core (or
\* its resolved file), and every file src/core's source file imports,
\* directly or transitively, is in used_files.
C7_BinScriptSeedsCore ==
    (pc = "done" /\ C7_Scenario) =>
        /\ BinCliJs \in entry_points
        /\ SrcCore \in entry_points \/ SrcCoreTs \in entry_points
        /\ Reachable(Get(dependencies, SrcCoreTs), dependencies)
              \subseteq used_files

\* The scenario of C8 with its three files under src/, named by a script
\* command, and with its three files beside src/, named by the bin mapping.
C8_UnderSrc ==
    Project({SrcEntryTs, SrcLibTs, SrcOrphanTs},
            TextOf({SrcEntryTs, SrcLibTs, SrcOrphanTs},
                   {<<SrcEntryTs, ImportLib>>, <<SrcLibTs, ImportHelper>>}, <<>>),
            {}, Manifest({}, {ScriptEntry}), {})

C8_UnderRoot ==
    Project({EntryTs, LibTs, OrphanTs},
            TextOf({EntryTs, LibTs, OrphanTs},
                   {<<EntryTs, ImportLib>>, <<LibTs, ImportHelper>>}, <<>>),
            {}, Manifest({<<".", "/">> \o EntryTs}, {}), {})

Outcome(project) ==
    LET all == FindAllFiles(project)
        entries == ManifestEntryPoints(project.manifest)
                      \cup UNION {BinFileEntryPoints(file) : file \in project.bin}
        edges == UNION {{<<f, r>> : r \in ResolvedImports(all, project, f)} :
                           f \in all}
        graph == AddEdges(<<>>, edges, 1, 2)
        named == {ComponentFile(ref) :
                     ref \in UNION {ComponentRefs(project.text[sf]) :
                                       sf \in ServerFiles(project)}}
        used == Reachable(entries, graph) \cup named
    IN  [used_files |-> used,
         unused_files |-> all \ used,
         summary |-> [total_files |-> Cardinality(all),
                      used_files |-> Cardinality(used),
                      unused_files |-> Cardinality(all \ used),
                      usage_percentage |->
                          UsagePercentage(Cardinality(used), Cardinality(all))]]

\* C9: the final used_files and the report's unused_files and summary are
\* the same for every order in which the files are traced, the entry points
\* queued and the dependencies appended: every run on a project ends with the
\* one outcome the project determines.
C9_OrderIndependent ==
    pc = "done" =>
        LET outcome == Outcome(root)
        IN  /\ used_files = outcome.used_files
            /\ report.unused_files = outcome.unused_files
            /\ report.summary = outcome.summary

\* A completed run with two entry points, three traced files and a file with
\* two dependencies: the orders had a choice at each of the three places.
C9_Witness ==
    /\ pc = "done"
    /\ Cardinality(entry_points) >= 2
    /\ Cardinality(traced) >= 3
    /\ \E f \in DOMAIN dependencies : Cardinality(dependencies[f]) >= 2
    /\ report.unused_files # {}

\* An import of f none of whose candidates is a known file.
IsDangling(f, t) ==
    LET cands == Candidates(f, t)
    IN  \A i \in 1..Len(cands) : cands[i] \notin all_files

\* C10: an import whose relative target matches none of the resolver's
\* candidates leaves no entry in dependencies or reverse_deps and raises
\* nothing; the other imports of the file are still recorded and the other
\* files still traced.  Only a file that cannot be read, or a malformed
\* manifest, ends the run.
C10_DanglingImportLeavesNothing ==
    /\ \A f \in traced :
          LET dangling == {t \in RelativeImports(f) : IsDangling(f, t)}
              found == RelativeImports(f) \ dangling
          IN  /\ found = {} =>
                    /\ f \notin DOMAIN dependencies
                    /\ \A k \in DOMAIN reverse_deps : f \notin reverse_deps[k]
              /\ \A t \in dangling :
                    LET cands == Candidates(f, t)
                    IN  \A i \in 1..Len(cands) :
                            /\ cands[i] \notin Get(dependencies, f)
                            /\ cands[i] \notin DOMAIN reverse_deps
              /\ Cardinality(Get(dependencies, f)) <= Cardinality(found)
              /\ \A t \in found :
                    LET cands == Candidates(f, t)
                    IN  \E i \in 1..Len(cands) :
                            cands[i] \in Get(dependencies, f)
    /\ pc = "error" =>
          \/ raised[1] = "json.load"
          \/ /\ raised[1] = "open"
             /\ \/ raised[2] \in root.unreadable
                \/ \E file \in root.bin :
                      ~file.readable /\ raised[2] = <<"bin", "/">> \o file.name

\* lib.ts, whose imports are './unused_helper' (dangling) and './entry', has
\* been traced and so has another file after it or before it: its one edge
\* goes to entry.ts.
C10_Witness ==
    /\ pc = "trace_dependencies"
    /\ {SrcLibTs, SrcEntryTs} \subseteq traced
    /\ RelativeImports(SrcLibTs) = {ImportHelper.target, ImportEntry.target}
    /\ IsDangling(SrcLibTs, ImportHelper.target)
    /\ dependencies[SrcLibTs] = {SrcEntryTs}
    /\ raised = NoException

\* C11: a source file or a file of bin/ that exists but cannot be read is
\* skipped silently: analyze() is never aborted by a failure to open or
\* decode one file, only by a failure to parse the manifest.
C11_UnreadableFileIsSkipped ==
    pc = "error" => raised[1] # "open"

\* C12: when the collected file universe is empty, generate_report returns a
\* report whose usage_percentage is 0 and raises nothing, whatever the entry
\* points and the component map contain: its step from such a state ends
\* analyze() with that report.
C12_EmptyUniverseReportsZero ==
    [][(pc = "generate_report" /\ all_files = {}) =>
          /\ pc' = "done"
          /\ raised' = NoException
          /\ report'.summary.total_files = 0
          /\ report'.summary.usage_percentage = 0]_vars

\* A report for an empty universe with an entry point and a non-empty
\* component map, both counted as used files.
C12_Witness ==
    /\ pc = "done"
    /\ all_files = {}
    /\ entry_points # {}
    /\ DOMAIN component_map # {}
    /\ report.summary.used_files >= 2
    /\ report.summary.usage_percentage = 0

\* C13: at every point during and after trace_dependencies, every edge stored
\* in dependencies has its source file and its target file in all_files: no
\* edge to an unresolved or out-of-universe path is ever stored.
C13_EdgesStayInUniverse ==
    \A a \in DOMAIN dependencies :
        a \in all_files /\ dependencies[a] \subseteq all_files

\* trace_dependencies is under way: a file with an import that resolves and
\* an import that does not has been traced and has its edge, and another file
\* is still to be traced.
C13_Witness ==
    /\ pc = "trace_dependencies"
    /\ traced # all_files
    /\ \E f \in traced \cap DOMAIN dependencies :
          /\ dependencies[f] # {}
          /\ \E t \in RelativeImports(f) : IsDangling(f, t)

\* C14: the forward and the reverse edge maps are kept in lockstep: after
\* each insertion of trace_dependencies, for all files a and b, b is in
\* dependencies[a] if and only if a is in reverse_deps[b].
C14_MapsInLockstep ==
    /\ \A a \in DOMAIN dependencies :
          \A b \in dependencies[a] : a \in Get(reverse_deps, b)
    /\ \A b \in DOMAIN reverse_deps :
          \A a \in reverse_deps[b] : b \in Get(dependencies, a)

\* trace_dependencies is under way and has recorded a file with two
\* importers and a file with two dependencies.
C14_Witness ==
    /\ pc = "trace_dependencies"
    /\ \E b \in DOMAIN reverse_deps : Cardinality(reverse_deps[b]) >= 2
    /\ \E a \in DOMAIN dependencies : Cardinality(dependencies[a]) >= 2

\* C15: in the closure loop each node is marked visited and added to the used
\* set at most once per run.  A turn of the loop on a node that is already
\* visited only pops it: nothing is marked, added or pushed.  A turn on any
\* other node marks and adds that node, which was neither visited nor used
\* before, and no node is ever unmarked.
C15_VisitedAtMostOnce ==
    [][(pc = "while" /\ to_process # <<>>) =>
          LET current == Head(to_process)
          IN  IF current \in processed
              THEN /\ processed' = processed
                   /\ used_files' = used_files
                   /\ to_process' = Tail(to_process)
              ELSE /\ current \notin used_files
                   /\ processed' = processed \cup {current}
                   /\ used_files' = used_files \cup {current}]_vars

\* The loop has come to its end on a graph where entry.ts and lib.ts import
\* each other and both are entry points: each was pushed again after it was
\* queued, and the last node popped had been visited.
C15_Witness ==
    /\ pc = "while"
    /\ {SrcEntryTs, SrcLibTs} \subseteq entry_points
    /\ SrcLibTs \in Get(dependencies, SrcEntryTs)
    /\ SrcEntryTs \in Get(dependencies, SrcLibTs)
    /\ to_process = <<>>
    /\ processed = used_files
    /\ {SrcEntryTs, SrcLibTs} \subseteq processed

\* C16: for each file of bin/ whose first line references a script runner,
\* only the first require(...) target found in the rest of the file is added
\* to the entry points; the later require targets of the file are not added.
C16_OnlyFirstRequireIsAdded ==
    pc \notin {"find_all_files", "find_entry_points", "error"} =>
        \A file \in root.bin :
            NamesScriptRunner(file.first_line) =>
                LET with == {j \in 1..Len(file.lines) : file.lines[j] # <<>>}
                    first == CHOOSE j \in with : \A k \in with : j <= k
                IN  \A j \in with : \A n \in 1..Len(file.lines[j]) :
                        LET target == Replace(file.lines[j][n],
                                              <<".", ".", "/">>, <<>>)
                        IN  (/\ target \in entry_points
                             /\ target \notin ManifestEntryPoints(root.manifest))
                                => target = Replace(file.lines[first][1],
                                                    <<".", ".", "/">>, <<>>)

\* C17: in every report generate_report produces, summary.used_files plus
\* summary.unused_files is summary.total_files (used_files is a subset of
\* all_files), and so usage_percentage never exceeds 100.
C17_SummaryAddsUp ==
    pc = "done" =>
        /\ report.summary.used_files + report.summary.unused_files
              = report.summary.total_files
        /\ used_files \subseteq all_files
        /\ report.summary.usage_percentage <= 10000

\* C18: in DataValidator.validate, after each check has been recorded,
\* summary.total_checks = summary.passed + summary.failed + summary.warnings,
\* and each result has incremented exactly one of the three counters, the one
\* of its status; when every check has returned a result, total_checks is 12.
C18_CountersAddUp ==
    validate_pc # "absent" =>
        LET summary == validation_results.summary
            checks == validation_results.checks
            With(status) ==
                Cardinality({n \in DOMAIN checks : checks[n].status = status})
        IN  /\ summary.total_checks
                  = summary.passed + summary.failed + summary.warnings
            /\ summary.total_checks = Cardinality(DOMAIN checks)
            /\ summary.passed = With("pass")
            /\ summary.warnings = With("warning")
            /\ summary.failed = With("fail")
            /\ check_no > Len(Checks) => summary.total_checks = 12

\* validate() has returned with results of all three kinds counted.
C18_Witness ==
    /\ validate_pc = "done"
    /\ validation_results.summary.total_checks = 12
    /\ validation_results.summary.passed > 0
    /\ validation_results.summary.failed > 0
    /\ validation_results.summary.warnings > 0
    /\ observer.validation_results = validation_results

====
